---- MODULE Spec2Model ----
(***************************************************************************)
(* Model of src/assets/icons/create_icons.py: a script that writes the     *)
(* four extension icons icon-{16,32,48,128}.png with PIL, or, when PIL     *)
(* cannot be imported, four text placeholders with the same names.         *)
(*                                                                         *)
(* One action per statement of the script.  The working directory (fs)     *)
(* outlives a run of the script; StartRun models a further invocation.     *)
(* Strings are sequences of string pieces, decimal numbers are expanded    *)
(* digit by digit as str() does.  An image is the canvas size together     *)
(* with the sequence of drawing calls applied to it.                       *)
(***************************************************************************)
EXTENDS Integers, Sequences, FiniteSets, TLC

\* Number of invocations of the script on the same working directory.
MaxRuns == 2

VARIABLES
    run,      \* ordinal of the current invocation
    pil,      \* whether "from PIL import Image, ImageDraw" can succeed
    pc,       \* position of the interpreter in the script
    inTry,    \* control is inside the try: suite (lines 7-42)
    exc,      \* exception being propagated, "None" if none
    idx,      \* position of the running for-loop iterator in its list
    size,     \* loop variable size
    i,        \* loop variable i of range(3)
    img,      \* the canvas being drawn (img / draw)
    fs,       \* working directory: file name -> file
    out,      \* lines printed to standard output by this run
    written,  \* files this run has finished writing, in order
    prev      \* summary of the previous invocation

vars == <<run, pil, pc, inTry, exc, idx, size, i, img, fs, out, written, prev>>

----------------------------------------------------------------------------
\* Pure expressions of the script

Max(a, b) == IF a >= b THEN a ELSE b

DigitChar(d) == <<"0", "1", "2", "3", "4", "5", "6", "7", "8", "9">>[d + 1]

RECURSIVE Digits(_)
\* str(n) for a non-negative integer, as interpolated by the f-strings
Digits(n) == IF n < 10 THEN <<DigitChar(n)>>
             ELSE Digits(n \div 10) \o <<DigitChar(n % 10)>>

sizes_swapped == <<16, 48, 32, 128>>

sizes == <<16, 32, 48, 128>>

placeholderSizes == <<16, 32, 48, 128>>

Filename_fixed(s) == <<"icon", ".png">>

Filename(s) == <<"icon-">> \o Digits(s) \o <<".png">>

CreatedLine(s) == <<"Created icon-">> \o Digits(s) \o <<".png">>

FallbackNotice == <<"PIL not available, creating simple text files as placeholders">>

PlaceholderText_no_newline(s) == <<"# Placeholder icon ">> \o Digits(s) \o <<"x">> \o Digits(s)

PlaceholderText(s) == <<"# Placeholder icon ">> \o Digits(s) \o <<"x">> \o Digits(s) \o <<"\n">>

margin(s) == Max(2, s \div 8)

box_width(s) == s \div 3

box_height(s) == s \div 2

box_x(s) == margin(s)

box_y_unhalved(s) == s - box_height(s)

box_y(s) == (s - box_height(s)) \div 2

wave_x(s) == box_x(s) + box_width(s) + margin(s)

center_y(s) == s \div 2

radius_from_zero(s, k) == k * (s \div 8)

radius(s, k) == (k + 1) * (s \div 8)

ArcFits_nomargin(s, k) == wave_x(s) + radius(s, k) < s

ArcFits(s, k) == wave_x(s) + radius(s, k) < s - margin(s)

stroke(s) == Max(1, s \div 32)

FillColor == <<64, 128, 255, 255>>

OutlineColor == <<32, 64, 128, 255>>

ArcCount == 3

\* draw.rectangle([...], fill=..., outline=...)
RectangleOp(s) ==
    [op |-> "rectangle",
     xy |-> <<box_x(s), box_y(s), box_x(s) + box_width(s), box_y(s) + box_height(s)>>,
     fill |-> FillColor, outline |-> OutlineColor,
     start |-> 0, end |-> 0, width |-> 1]

\* draw.arc([...], -30, 30, fill=..., width=...)
ArcOp(s, k) ==
    [op |-> "arc",
     xy |-> <<wave_x(s) - radius(s, k), center_y(s) - radius(s, k),
              wave_x(s) + radius(s, k), center_y(s) + radius(s, k)>>,
     fill |-> FillColor, outline |-> <<>>,
     start |-> -30, end |-> 30, width |-> stroke(s)]

\* Image.new('RGBA', (size, size), (0, 0, 0, 0))
NewImage(s) == [mode |-> "RGBA", w |-> s, h |-> s, bg |-> <<0, 0, 0, 0>>, ops |-> <<>>]

NoImage == [mode |-> "none", w |-> 0, h |-> 0, bg |-> <<>>, ops |-> <<>>]

\* Files of the working directory
ImageFile(im) == [kind |-> "image", image |-> im, text |-> <<>>]

TextFile(t) == [kind |-> "text", image |-> NoImage, text |-> t]

\* a file that was opened for writing (truncated) and never filled
EmptyFile == [kind |-> "empty", image |-> NoImage, text |-> <<>>]

Put(f, name, file) == [n \in DOMAIN f \cup {name} |-> IF n = name THEN file ELSE f[n]]

ImgSave_draw_over(f, name, im) ==
    IF name \in DOMAIN f /\ f[name].kind = "image"
    THEN Put(f, name, ImageFile([im EXCEPT !.ops = f[name].image.ops \o im.ops]))
    ELSE Put(f, name, ImageFile(im))

\* img.save(name): the file is replaced by the encoding of the canvas
ImgSave(f, name, im) == Put(f, name, ImageFile(im))

\* with open(name, 'w') as f: f.write(text)
WriteText(f, name, t) == Put(f, name, TextFile(t))

Catches_any(e) == e # "None"

Catches_oserror(e) == e \in {"ImportError", "OSError"}

\* except ImportError:
Catches(e) == e = "ImportError"

NoPrev == [valid |-> FALSE, pil |-> FALSE, status |-> "none", fs |-> <<>>]

----------------------------------------------------------------------------
Init ==
    /\ run = 1
    /\ pil \in BOOLEAN
    /\ pc = "import"
    /\ inTry = TRUE
    /\ exc = "None"
    /\ idx = 1
    /\ size = 0
    /\ i = 0
    /\ img = NoImage
    /\ fs = <<>>
    /\ out = <<>>
    /\ written = <<>>
    /\ prev = NoPrev

\* line 7: from PIL import Image, ImageDraw
Import ==
    /\ pc = "import"
    /\ IF pil
       THEN /\ pc' = "for"
            /\ exc' = exc
       ELSE /\ pc' = "raised"
            /\ exc' = "ImportError"
    /\ idx' = 1
    /\ UNCHANGED <<run, pil, inTry, size, i, img, fs, out, written, prev>>

\* line 12: for size in sizes
ForSize ==
    /\ pc = "for"
    /\ IF idx <= Len(sizes)
       THEN /\ size' = sizes[idx]
            /\ pc' = "new"
            /\ inTry' = inTry
       ELSE /\ size' = size
            /\ pc' = "done"
            /\ inTry' = FALSE
    /\ UNCHANGED <<run, pil, exc, idx, i, img, fs, out, written, prev>>

\* lines 14-15
NewCanvas ==
    /\ pc = "new"
    /\ img' = NewImage(size)
    /\ pc' = "rect"
    /\ UNCHANGED <<run, pil, inTry, exc, idx, size, i, fs, out, written, prev>>

\* lines 18-31
DrawRectangle ==
    /\ pc = "rect"
    /\ img' = [img EXCEPT !.ops = Append(@, RectangleOp(size))]
    /\ i' = 0
    /\ pc' = "arc"
    /\ UNCHANGED <<run, pil, inTry, exc, idx, size, fs, out, written, prev>>

\* lines 34-39, one iteration whose arc is drawn
ArcDraw ==
    /\ pc = "arc"
    /\ i < ArcCount
    /\ ArcFits(size, i)
    /\ img' = [img EXCEPT !.ops = Append(@, ArcOp(size, i))]
    /\ i' = i + 1
    /\ UNCHANGED <<run, pil, pc, inTry, exc, idx, size, fs, out, written, prev>>

\* lines 34-36, one iteration whose arc is skipped
ArcSkip ==
    /\ pc = "arc"
    /\ i < ArcCount
    /\ ~ArcFits(size, i)
    /\ i' = i + 1
    /\ UNCHANGED <<run, pil, pc, inTry, exc, idx, size, img, fs, out, written, prev>>

\* line 34: range(3) is exhausted
ArcExit ==
    /\ pc = "arc"
    /\ i >= ArcCount
    /\ pc' = "save"
    /\ UNCHANGED <<run, pil, inTry, exc, idx, size, i, img, fs, out, written, prev>>

\* line 41: img.save succeeds
SaveOk ==
    /\ pc = "save"
    /\ fs' = ImgSave(fs, Filename(size), img)
    /\ written' = Append(written, [name |-> Filename(size), kind |-> "image"])
    /\ pc' = "print"
    /\ UNCHANGED <<run, pil, inTry, exc, idx, size, i, img, out, prev>>

\* line 41: img.save raises OSError; the file is untouched (it could not be
\* opened) or left opened and truncated
SaveFail ==
    /\ pc = "save"
    /\ \/ fs' = fs
       \/ fs' = Put(fs, Filename(size), EmptyFile)
    /\ exc' = "OSError"
    /\ pc' = "raised"
    /\ UNCHANGED <<run, pil, inTry, idx, size, i, img, out, written, prev>>

\* line 42
PrintCreated ==
    /\ pc = "print"
    /\ out' = Append(out, CreatedLine(size))
    /\ idx' = idx + 1
    /\ pc' = "for"
    /\ UNCHANGED <<run, pil, inTry, exc, size, i, img, fs, written, prev>>

\* lines 6/44: an exception raised in the try suite reaches the except clause
Handle ==
    /\ pc = "raised"
    /\ inTry
    /\ Catches(exc)
    /\ exc' = "None"
    /\ inTry' = FALSE
    /\ pc' = "notice"
    /\ UNCHANGED <<run, pil, idx, size, i, img, fs, out, written, prev>>

\* an exception no clause handles ends the interpreter with a traceback
Abort ==
    /\ pc = "raised"
    /\ ~(inTry /\ Catches(exc))
    /\ inTry' = FALSE
    /\ pc' = "aborted"
    /\ UNCHANGED <<run, pil, exc, idx, size, i, img, fs, out, written, prev>>

\* line 45
PrintNotice ==
    /\ pc = "notice"
    /\ out' = Append(out, FallbackNotice)
    /\ idx' = 1
    /\ pc' = "pfor"
    /\ UNCHANGED <<run, pil, inTry, exc, size, i, img, fs, written, prev>>

\* line 46: for size in [16, 32, 48, 128]
PlaceholderFor ==
    /\ pc = "pfor"
    /\ IF idx <= Len(placeholderSizes)
       THEN /\ size' = placeholderSizes[idx]
            /\ pc' = "pwrite"
       ELSE /\ size' = size
            /\ pc' = "done"
    /\ UNCHANGED <<run, pil, inTry, exc, idx, i, img, fs, out, written, prev>>

PlaceholderWriteOk_print ==
    /\ pc = "pwrite"
    /\ fs' = WriteText(fs, Filename(size), PlaceholderText(size))
    /\ written' = Append(written, [name |-> Filename(size), kind |-> "text"])
    /\ out' = Append(out, CreatedLine(size))
    /\ idx' = idx + 1
    /\ pc' = "pfor"
    /\ UNCHANGED <<run, pil, inTry, exc, size, i, img, prev>>

\* lines 47-48 succeed
PlaceholderWriteOk ==
    /\ pc = "pwrite"
    /\ fs' = WriteText(fs, Filename(size), PlaceholderText(size))
    /\ written' = Append(written, [name |-> Filename(size), kind |-> "text"])
    /\ idx' = idx + 1
    /\ pc' = "pfor"
    /\ UNCHANGED <<run, pil, inTry, exc, size, i, img, out, prev>>

\* line 47 raises OSError (file untouched) or line 48 does (file truncated)
PlaceholderWriteFail ==
    /\ pc = "pwrite"
    /\ \/ fs' = fs
       \/ fs' = Put(fs, Filename(size), EmptyFile)
    /\ exc' = "OSError"
    /\ pc' = "raised"
    /\ UNCHANGED <<run, pil, inTry, idx, size, i, img, out, written, prev>>

\* the script is invoked again in the same working directory
StartRun ==
    /\ pc \in {"done", "aborted"}
    /\ run < MaxRuns
    /\ run' = run + 1
    /\ prev' = [valid |-> TRUE, pil |-> pil, status |-> pc, fs |-> fs]
    /\ pil' \in BOOLEAN
    /\ pc' = "import"
    /\ inTry' = TRUE
    /\ exc' = "None"
    /\ idx' = 1
    /\ size' = 0
    /\ i' = 0
    /\ img' = NoImage
    /\ out' = <<>>
    /\ written' = <<>>
    /\ fs' = fs

Next ==
    \/ Import
    \/ ForSize
    \/ NewCanvas
    \/ DrawRectangle
    \/ ArcDraw
    \/ ArcSkip
    \/ ArcExit
    \/ SaveOk
    \/ SaveFail
    \/ PrintCreated
    \/ Handle
    \/ Abort
    \/ PrintNotice
    \/ PlaceholderFor
    \/ PlaceholderWriteOk
    \/ PlaceholderWriteFail
    \/ StartRun

Spec == Init /\ [][Next]_vars

----------------------------------------------------------------------------
\* Literal values the properties below are stated against

Name16 == <<"icon-", "1", "6", ".png">>

Name32 == <<"icon-", "3", "2", ".png">>

Name48 == <<"icon-", "4", "8", ".png">>

Name128 == <<"icon-", "1", "2", "8", ".png">>

FourNames == <<Name16, Name32, Name48, Name128>>

FourCreatedLines ==
    << <<"Created icon-", "1", "6", ".png">>,
       <<"Created icon-", "3", "2", ".png">>,
       <<"Created icon-", "4", "8", ".png">>,
       <<"Created icon-", "1", "2", "8", ".png">> >>

NoticeLine == <<"PIL not available, creating simple text files as placeholders">>

FixedSizes == {16, 32, 48, 128}

IsPrefix(a, b) == Len(a) <= Len(b) /\ \A k \in 1..Len(a) : a[k] = b[k]

WrittenNames == [k \in 1..Len(written) |-> written[k].name]

\* operations of canvas im that are arcs
ArcsOf(im) == {k \in 1..Len(im.ops) : im.ops[k].op = "arc"}

\* the canvases whose sound-wave loop has finished: the one about to be
\* saved or just saved, and every image stored in the working directory
FinishedImages ==
    (IF pc \in {"save", "print"} THEN {img} ELSE {})
    \cup {fs[n].image : n \in {m \in DOMAIN fs : fs[m].kind = "image"}}

----------------------------------------------------------------------------
\* C1: when a run completes (no filesystem error), the files it wrote are
\* exactly icon-16.png, icon-32.png, icon-48.png and icon-128.png, one
\* artifact each, in either mode, and the directory holds nothing else.
C1_ExactlyFourFiles ==
    pc = "done" =>
        /\ Len(written) = 4
        /\ {written[k].name : k \in 1..Len(written)} = {Name16, Name32, Name48, Name128}
        /\ DOMAIN fs = {Name16, Name32, Name48, Name128}
        /\ \A n \in DOMAIN fs : fs[n].kind = (IF pil THEN "image" ELSE "text")

C1_Witness ==
    /\ pc = "done" /\ ~pil /\ Len(written) = 4
    /\ prev.valid /\ prev.pil /\ prev.status = "done"

\* C2: the mode is fixed by the availability of PIL at the start of the run;
\* a run never contains both an image write and a placeholder write.
C2_SingleMode ==
    /\ \A k \in 1..Len(written) : written[k].kind = (IF pil THEN "image" ELSE "text")
    /\ pc \in {"for", "new", "rect", "arc", "save", "print"} => pil
    /\ pc \in {"notice", "pfor", "pwrite"} => ~pil

C2_Witness ==
    /\ pil /\ pc = "aborted" /\ exc = "OSError"
    /\ Len(written) = 3 /\ \A k \in 1..3 : written[k].kind = "image"

\* C3: without PIL, after a completed run every icon-{S}.png is a text file
\* holding exactly "# Placeholder icon {S}x{S}\n".
C3_PlaceholderContent ==
    (pc = "done" /\ ~pil) =>
        /\ {Name16, Name32, Name48, Name128} \subseteq DOMAIN fs
        /\ fs[Name16].kind = "text"
        /\ fs[Name16].text = <<"# Placeholder icon ", "1", "6", "x", "1", "6", "\n">>
        /\ fs[Name32].kind = "text"
        /\ fs[Name32].text = <<"# Placeholder icon ", "3", "2", "x", "3", "2", "\n">>
        /\ fs[Name48].kind = "text"
        /\ fs[Name48].text = <<"# Placeholder icon ", "4", "8", "x", "4", "8", "\n">>
        /\ fs[Name128].kind = "text"
        /\ fs[Name128].text = <<"# Placeholder icon ", "1", "2", "8", "x", "1", "2", "8", "\n">>

C3_Witness == pc = "done" /\ ~pil /\ run = 1 /\ Len(out) = 1

\* C4: in both modes the files are written in the order 16, 32, 48, 128,
\* each size once: what a run has written so far is always an initial part
\* of that list, and all of it once the run completes.
C4_AscendingOrder ==
    /\ IsPrefix(WrittenNames, FourNames)
    /\ pc = "done" => Len(written) = 4

C4_Witness == pc = "pwrite" /\ Len(written) = 3 /\ size = 128

\* C5: standard output is determined by the mode.  Rendering: the lines
\* "Created icon-{S}.png" in the order 16, 32, 48, 128, each only after its
\* file was saved, all four once the run completes.  Placeholder: only the
\* fallback notice, printed before the first placeholder file is written.
C5_OutputLog ==
    /\ pil =>
        /\ IsPrefix(out, FourCreatedLines)
        /\ Len(out) <= Len(written)
        /\ \A k \in 1..Len(out) :
              /\ written[k].name = FourNames[k]
              /\ FourNames[k] \in DOMAIN fs
              /\ fs[FourNames[k]].kind = "image"
        /\ pc = "done" => out = FourCreatedLines
    /\ ~pil =>
        /\ out \in {<<>>, <<NoticeLine>>}
        /\ (written # <<>> \/ pc \in {"pfor", "pwrite", "done"}) => out = <<NoticeLine>>

C5_Witness == pil /\ pc = "done" /\ Len(out) = 4 /\ run = 2 /\ ~prev.pil

\* C6: an OSError raised while a file is being written is not handled: the
\* run ends aborted at that size without touching output, directory or the
\* list of written files any further; nothing more happens in that run (only
\* a new invocation can follow); the failing write leaves the files already
\* written by the run as they were.
C6_WriteFailureFatal ==
    [][ /\ (pc = "raised" /\ exc = "OSError") =>
              /\ pc' = "aborted" /\ exc' = "OSError" /\ run' = run
              /\ fs' = fs /\ written' = written /\ out' = out /\ idx' = idx
        /\ pc = "aborted" => (run' = run + 1 /\ pc' = "import" /\ fs' = fs)
        /\ (pc \in {"save", "pwrite"} /\ exc' = "OSError") =>
              /\ pc' = "raised"
              /\ written' = written
              /\ \A k \in 1..Len(written) :
                    /\ written[k].name \in DOMAIN fs'
                    /\ fs'[written[k].name] = fs[written[k].name]
      ]_vars

C6_Witness ==
    /\ pc = "aborted" /\ exc = "OSError" /\ pil /\ Len(written) = 2
    /\ fs[Name16].kind = "image" /\ fs[Name32].kind = "image"

\* C7: arc i of size S is on the canvas exactly when
\* wave_x + radius < S - margin, with margin = max(2, S div 8),
\* wave_x = margin + S div 3 + margin, radius = (i+1) * (S div 8); an
\* iteration that fails the test changes nothing but the loop counter and
\* raises nothing, and a completed rendering run has saved all four images.
C7_ArcDrawnIffFits ==
    /\ [](/\ \A im \in FinishedImages : \A k \in 0..2 :
               LET S  == im.w
                   m  == IF S \div 8 >= 2 THEN S \div 8 ELSE 2
                   wx == m + (S \div 3) + m
                   cy == S \div 2
                   r  == (k + 1) * (S \div 8)
               IN  (\E j \in ArcsOf(im) :
                        im.ops[j].xy = <<wx - r, cy - r, wx + r, cy + r>>)
                   <=> (wx + r < S - m)
          /\ (pc = "done" /\ pil) =>
                \A n \in {Name16, Name32, Name48, Name128} :
                    n \in DOMAIN fs /\ fs[n].kind = "image")
    /\ [][ (pc = "arc" /\ i < 3 /\
            LET m  == IF size \div 8 >= 2 THEN size \div 8 ELSE 2
                wx == m + (size \div 3) + m
            IN  ~(wx + (i + 1) * (size \div 8) < size - m))
           => (pc' = "arc" /\ i' = i + 1 /\ img' = img /\ exc' = "None" /\ fs' = fs)
         ]_vars

C7_Witness ==
    /\ pc = "print" /\ size = 16 /\ i = 3
    /\ Cardinality(ArcsOf(img)) = 2
    /\ fs[Name16].image = img

\* C8: the speaker rectangle is the first drawing on every canvas, spans
\* (margin, (S - S div 2) div 2) .. (margin + S div 3, that + S div 2) and
\* has all four coordinates in 0..S-1; for S = 16 margin is 2, the width 5
\* and the height 8.
C8_RectangleInsideCanvas ==
    \A im \in (IF pc \in {"arc", "save", "print"} THEN {img} ELSE {})
              \cup {fs[n].image : n \in {m \in DOMAIN fs : fs[m].kind = "image"}} :
        LET S  == im.w
            m  == IF S \div 8 >= 2 THEN S \div 8 ELSE 2
            y0 == (S - S \div 2) \div 2
            xy == im.ops[1].xy
        IN  /\ Len(im.ops) >= 1
            /\ im.ops[1].op = "rectangle"
            /\ \A k \in 2..Len(im.ops) : im.ops[k].op # "rectangle"
            /\ xy = <<m, y0, m + S \div 3, y0 + S \div 2>>
            /\ \A c \in 1..4 : xy[c] \in 0..(S - 1)
            /\ S = 16 => (xy[1] = 2 /\ xy[3] - xy[1] = 5 /\ xy[4] - xy[2] = 8)

C8_Witness ==
    /\ pc = "arc" /\ i = 0 /\ size = 16
    /\ Len(img.ops) = 1 /\ img.ops[1].xy = <<2, 4, 7, 12>>

\* C9: a rendering run that completes after a completed rendering run
\* leaves the working directory exactly as that run left it; and whatever a
\* file held before, once saved it holds the canvas just drawn and nothing
\* else.
C9_Idempotent ==
    /\ (pc = "done" /\ pil /\ prev.valid /\ prev.pil /\ prev.status = "done")
          => fs = prev.fs
    /\ pc = "print" =>
          /\ written # <<>>
          /\ fs[written[Len(written)].name] =
                [kind |-> "image", image |-> img, text |-> <<>>]
          /\ img.w = size /\ img.h = size /\ img.mode = "RGBA"

C9_Witness ==
    /\ pc = "done" /\ pil /\ run = 2
    /\ prev.valid /\ prev.pil /\ prev.status = "done"
    /\ DOMAIN fs = {Name16, Name32, Name48, Name128}

====
